---- MODULE Spec2Model ----
(***************************************************************************)
(* Model of the job orchestration of src/voice_clone_app.py               *)
(* (class VoiceCloneApp) and of the model interface it calls              *)
(* (src/voice_clone_model.py).                                             *)
(*                                                                         *)
(* One UI thread runs the Qt event loop: it handles user input, queued     *)
(* signal deliveries and QTimer.singleShot expiries, one handler at a      *)
(* time.  Worker threads (threading.Thread) run init_model, record and     *)
(* generate; a signal emitted by a worker is queued to the UI thread, a    *)
(* signal emitted on the UI thread calls its slot directly.                *)
(*                                                                         *)
(* Time is counted in units of 100 ms.  Every pending timer holds the time *)
(* left until it expires, counted from the last instant the model looked   *)
(* at the clock: the instant a timer fired or was armed.  Timers fire in   *)
(* expiry order; a handler that arms a timer at an arbitrary moment (a     *)
(* user operation, the delivery of a worker's signal) first lets any       *)
(* amount of time pass that the earliest pending timer still allows.       *)
(***************************************************************************)
EXTENDS Integers, Sequences, FiniteSets, TLC

VARIABLES
    tts,                 \* self.tts: "None" or the model handle
    model_loaded,        \* self.model_loaded
    voice_sample_path,   \* self.voice_sample_path: "None" or a path
    generated_audio_path,\* self.generated_audio_path: "None" or a path
    is_generating,       \* self.is_generating
    countdown_window,    \* self.countdown_window: NoWindow or an open CountdownDialog
    loading_active,      \* self.loading_active
    loading_dots,        \* self.loading_dots, kept modulo 4 (only % 4 is displayed)
    loading_label,       \* text of self.loading_label
    widgets,             \* create_widgets has run (play_button, status_label, ... exist)
    play_enabled,        \* self.play_button.isEnabled()
    record_enabled,      \* self.record_button.isEnabled()
    status,              \* self.status_label.text()
    file_info_frame,     \* self.file_info_frame.isVisible()
    drop_label,          \* self.drop_label.isVisible()
    queue,               \* signal emissions queued from worker threads to the UI thread
    timers,              \* pending QTimer.singleShot timers of the UI thread, by expiry
    boxes,               \* open QMessageBox dialogs (nested event loops), innermost last
    initjob,             \* the init_model thread
    jobs,                \* the record and generate threads, in order of their start
    nseq,                \* number of CountdownDialogs created so far
    crashed,             \* the process has died (unhandled exception in a slot, or a
                         \* widget call made off the UI thread that went wrong)
    workerWrites,        \* history: the fields a worker thread step has written directly
    cap,                 \* the record and generate threads the user gets to start in this run
    advanced_mode,       \* self.advanced_mode (the advanced section is visible iff it is set)
    emo_vec,             \* values of self.emo_vec_spinboxes, in tenths
    use_emo_text,        \* self.use_emo_text_checkbox.isChecked()
    emo_text,            \* self.emo_text_input.text()
    use_fixed_length,    \* self.use_fixed_length_checkbox.isChecked()
    max_mel_tokens,      \* self.max_mel_tokens_spinbox.value()
    length_penalty,      \* self.length_penalty_spinbox.value(), in tenths
    now,                 \* int(time.time()), counted from the start of the run
    written,             \* history: the paths convert_to_wav has written to
    rewritten,           \* history: the paths it has written to more than once
    model_dirs,          \* what the two model locations may hold when load_model looks
    calls                \* history: the calls of generate_speech, with what generate() had read

vars == <<tts, model_loaded, voice_sample_path, generated_audio_path, is_generating,
          countdown_window, loading_active, loading_dots, loading_label, widgets,
          play_enabled, record_enabled, status, file_info_frame, drop_label, queue, timers, boxes, initjob, jobs,
          nseq, crashed, workerWrites, cap, advanced_mode, emo_vec, use_emo_text, emo_text,
          use_fixed_length, max_mel_tokens, length_penalty, calls, now, written, rewritten,
          model_dirs>>

session == <<tts, model_loaded, voice_sample_path, generated_audio_path, is_generating>>
buttons == <<play_enabled, record_enabled>>
loading == <<loading_active, loading_dots, loading_label>>
panel == <<file_info_frame, drop_label>>
dialogs == <<nseq, crashed>>
files == <<now, written, rewritten, model_dirs>>
advanced == <<emo_vec, use_emo_text, emo_text, use_fixed_length, max_mel_tokens, length_penalty>>

----------------------------------------------------------------------------
(* Bounds of the model *)

\* record and generate threads started in one run of Spec: enough for two
\* threads at a time
MaxJobs == 2

\* record and generate threads started in one run of SpecSolo
MaxSoloJobs == 1

\* Whole seconds the clock advances in a run of SpecFiles
MaxSeconds == 2

----------------------------------------------------------------------------
(* Program constants, in units of 100 ms where they are durations *)

ModelLoadedDelay == 1     \* QTimer.singleShot(100, ...) in on_model_loaded / init_model
CloseDelay == 5           \* QTimer.singleShot(500, ...) in on_recording_complete
LoadSampleDelay == 6      \* QTimer.singleShot(600, ...) in on_recording_complete
TickInterval == 10        \* QTimer.singleShot(1000, ...) of both countdowns
LoadingInterval == 2      \* QTimer.singleShot(200, self.update_loading)
PreRollStart == 3         \* pre_countdown(3)
RecCountdownStart == 5    \* recording_countdown(5)

None == "None"
NoWindow == [seq |-> 0, label |-> "", sub |-> ""]

StatusReady == "Model loaded! Drop an audio file or record from microphone."
StatusModelNotFound == "ERROR: Model not found"
StatusModelError == "ERROR: Failed to load model"
StatusRecording == "Recording... Speak now!"
StatusRecordingFailed == "ERROR: Recording failed"
StatusRecordingSilent == "ERROR: Recording failed: Recording appears to be silent!"
StatusRecordingComplete == "Recording complete! Enter text and click Generate & Play."
StatusGenerationError == "ERROR: Error generating speech"

----------------------------------------------------------------------------
(* Qt plumbing *)

Msg(sig, a, b, job) == [sig |-> sig, a |-> a, b |-> b, job |-> job]
Timer(d, k, a, b, job) == [d |-> d, k |-> k, a |-> a, b |-> b, job |-> job, n |-> 0]
\* A countdown callback scheduled with its argument n, for countdown sequence seq
Tick(d, k, n, seq) == [d |-> d, k |-> k, a |-> "", b |-> "", job |-> seq, n |-> n]
Box(title, text, cont, job) == [title |-> title, text |-> text, cont |-> cont, job |-> job]

\* QTimer.singleShot(d, ...) on the UI thread: the new timer expires after every
\* pending timer that expires at the same time or earlier.
RECURSIVE InsertTimer(_, _)
InsertTimer(ts, t) ==
    IF ts = <<>> THEN <<t>>
    ELSE IF Head(ts).d <= t.d THEN <<Head(ts)>> \o InsertTimer(Tail(ts), t)
    ELSE <<t>> \o ts

RECURSIVE InsertTimers(_, _)
InsertTimers(ts, new) ==
    IF new = <<>> THEN ts ELSE InsertTimers(InsertTimer(ts, Head(new)), Tail(new))

\* e units of time pass for every pending timer
Elapse(ts, e) == [i \in DOMAIN ts |-> [ts[i] EXCEPT !.d = @ - e]]

\* The time that can have passed since the clock was last looked at
Elapsed == IF timers = <<>> THEN {0} ELSE 0..Head(timers).d

Expired == timers # <<>> /\ Head(timers).d = 0

\* The user can act on the main window: it exists, no modal dialog (message box or
\* countdown dialog) blocks it, and the event loop is not in a pass over expired timers.
UserCanAct ==
    /\ ~crashed
    /\ widgets
    /\ boxes = <<>>
    /\ countdown_window.seq = 0
    /\ ~Expired

----------------------------------------------------------------------------
(* voice_clone_model.py: model discovery and loading *)

\* What the filesystem holds at the two model locations.  A config.yaml can only
\* exist inside an existing directory.
ModelDirs ==
    {fs \in [hf : BOOLEAN, hf_cfg : BOOLEAN, parent : BOOLEAN, parent_cfg : BOOLEAN] :
        (fs.hf_cfg => fs.hf) /\ (fs.parent_cfg => fs.parent)}

\* A variant of find_model_dir that does not look for config.yaml;
\* C25_ModelDiscovery tells find_model_dir from it.
find_model_dir_any(fs) ==
    IF fs.hf THEN "hf_cache"
    ELSE IF fs.parent THEN "parent_checkpoints"
    ELSE None

find_model_dir(fs) ==
    IF fs.hf /\ fs.hf_cfg THEN "hf_cache"
    ELSE IF fs.parent /\ fs.parent_cfg THEN "parent_checkpoints"
    ELSE None

\* load_model(): "notfound" is FileNotFoundError, "error" any exception raised by
\* the IndexTTS2 constructor (ctor), "ok" a constructed model.
load_model(fs, ctor) ==
    IF find_model_dir(fs) = None THEN "notfound"
    ELSE IF ctor = "raise" THEN "error"
    ELSE "ok"

----------------------------------------------------------------------------
(* The init_model thread *)

\* init_model runs on a plain threading.Thread.  On failure it calls
\* QTimer.singleShot from that thread, which has no Qt event loop of its own:
\* whether those two timers ever fire is left open (hasLoop).  When they fire they
\* emit from the worker thread, so the emissions are queued to the UI thread.
InitModelFailed(r, hasLoop) ==
    /\ model_loaded' = TRUE
    /\ workerWrites' = workerWrites \cup {"model_loaded"}
    /\ queue' = Append(queue, Msg("model_loaded", "", "", 0))
    /\ initjob' = [initjob EXCEPT !.pc = "done", !.res = r]
    /\ timers' =
          IF ~hasLoop THEN timers
          ELSE IF r = "notfound"
          THEN InsertTimers(timers,
                 <<Timer(ModelLoadedDelay, "emit", "show_message", "Model Not Found", 0),
                   Timer(ModelLoadedDelay, "emit", "status_update", StatusModelNotFound, 0)>>)
          ELSE InsertTimers(timers,
                 <<Timer(ModelLoadedDelay, "emit", "show_message", "Model Loading Error", 0),
                   Timer(ModelLoadedDelay, "emit", "status_update", StatusModelError, 0)>>)
    /\ UNCHANGED tts

InitModelSucceeded ==
    /\ tts' = "IndexTTS2"
    /\ workerWrites' = workerWrites \cup {"tts"}
    /\ queue' = Append(queue, Msg("model_loaded", "", "", 0))
    /\ initjob' = [initjob EXCEPT !.pc = "done", !.res = "ok"]
    /\ UNCHANGED <<model_loaded, timers>>

InitModel ==
    /\ ~crashed
    /\ UNCHANGED <<cap, advanced_mode, advanced, calls, files>>
    /\ initjob.pc = "run"
    /\ \E fs \in model_dirs, ctor \in {"ok", "raise"}, hasLoop \in BOOLEAN :
          LET r == load_model(fs, ctor) IN
          IF r = "ok" THEN InitModelSucceeded ELSE InitModelFailed(r, hasLoop)
    /\ UNCHANGED <<voice_sample_path, generated_audio_path, is_generating,
                   countdown_window, loading, widgets, buttons, status, panel,
                   boxes, jobs, dialogs>>

----------------------------------------------------------------------------
(* voice_clone_model.py: sample validation *)

\* Durations of audio files, in tenths of a second.
MaxDuration == 100        \* validate_audio_file(filepath, max_duration=10.0)

\* The audio files the user can offer: ext is the file name's extension as
\* written, dur the duration, readable whether a duration probe succeeds, and
\* convertible whether ffmpeg or the soundfile fallback can convert it.
SampleFiles ==
    { [path |-> "clip.wav", ext |-> "wav", dur |-> 42, readable |-> TRUE, convertible |-> TRUE],
      [path |-> "clip.mp3", ext |-> "mp3", dur |-> 100, readable |-> TRUE, convertible |-> TRUE],
      [path |-> "long.WAV", ext |-> "WAV", dur |-> 101, readable |-> TRUE, convertible |-> TRUE],
      [path |-> "take.WAV", ext |-> "WAV", dur |-> 30, readable |-> TRUE, convertible |-> TRUE],
      [path |-> "long.mp3", ext |-> "mp3", dur |-> 250, readable |-> TRUE, convertible |-> TRUE],
      [path |-> "bad.m4a", ext |-> "m4a", dur |-> 30, readable |-> TRUE, convertible |-> FALSE],
      [path |-> "noise.flac", ext |-> "flac", dur |-> 30, readable |-> FALSE, convertible |-> TRUE] }

\* str.lower() on the extensions that occur
Lower(ext) == IF ext = "WAV" THEN "wav" ELSE ext

\* filepath.lower().endswith('.wav')
EndsWithWav(f) == Lower(f.ext) = "wav"

\* convert_to_wav: the converted file in the temporary directory
convert_to_wav(f) ==
    [path |-> "tmp/voice_sample_" \o ToString(now) \o ".wav", ext |-> "wav", dur |-> f.dur,
     readable |-> TRUE, convertible |-> TRUE]

\* A variant of validate_audio_file that hands back the input as it is;
\* C26_ValidatedIsWav tells validate_audio_file from it.
validate_audio_file_unconverted(f) ==
    IF ~f.readable THEN [res |-> "Exception", file |-> f]
    ELSE IF f.dur > MaxDuration THEN [res |-> "ValueError", file |-> f]
    ELSE [res |-> "ok", file |-> f]

\* A variant of validate_audio_file without the duration check;
\* C11_TooLongRefused tells validate_audio_file from it.
validate_audio_file_unlimited(f) ==
    IF ~f.readable THEN [res |-> "Exception", file |-> f]
    ELSE IF EndsWithWav(f) THEN [res |-> "ok", file |-> f]
    ELSE IF f.convertible THEN [res |-> "ok", file |-> convert_to_wav(f)]
    ELSE [res |-> "Exception", file |-> f]

\* validate_audio_file: res is "ok" with the validated file, "ValueError" when the
\* file is too long, "Exception" when the probe or the conversion fails.
validate_audio_file(f) ==
    IF ~f.readable THEN [res |-> "Exception", file |-> f]
    ELSE IF f.dur > MaxDuration THEN [res |-> "ValueError", file |-> f]
    ELSE IF EndsWithWav(f) THEN [res |-> "ok", file |-> f]
    ELSE IF f.convertible THEN [res |-> "ok", file |-> convert_to_wav(f)]
    ELSE [res |-> "Exception", file |-> f]

----------------------------------------------------------------------------
(* Slots of VoiceCloneApp, run on the UI thread.  q and ts are the queue and *)
(* the timers left once the delivered message or fired timer is taken off.   *)

\* A variant of on_model_loaded whose create_widgets leaves the two buttons
\* enabled; C10_ControlsFollowModelLoad tells on_model_loaded from it.
on_model_loaded_enabled(q, ts) ==
    /\ model_loaded' = TRUE
    /\ widgets' = TRUE
    /\ play_enabled' = TRUE
    /\ record_enabled' = TRUE
    /\ status' = "Initializing..."
    /\ file_info_frame' = FALSE
    /\ drop_label' = TRUE
    /\ loading_label' = ""
    /\ timers' = InsertTimer(ts, Timer(ModelLoadedDelay, "status_update", StatusReady, "", 0))
    /\ initjob' = [initjob EXCEPT !.succ = @ + 1]
    /\ queue' = q
    /\ UNCHANGED <<tts, voice_sample_path, generated_audio_path, is_generating,
                   countdown_window, loading_active, loading_dots, boxes, jobs, dialogs,
                   workerWrites>>

\* on_model_loaded, with show_main_content and create_widgets
on_model_loaded(q, ts) ==
    /\ model_loaded' = TRUE
    /\ widgets' = TRUE
    /\ play_enabled' = FALSE
    /\ record_enabled' = FALSE
    /\ status' = "Initializing..."
    /\ file_info_frame' = FALSE
    /\ drop_label' = TRUE
    /\ loading_label' = ""
    /\ timers' = InsertTimers(ts,
          <<Timer(ModelLoadedDelay, "status_update", StatusReady, "", 0),
            Timer(ModelLoadedDelay, "button_enable", "play", "on", 0),
            Timer(ModelLoadedDelay, "button_enable", "record", "on", 0)>>)
    /\ initjob' = [initjob EXCEPT !.succ = @ + 1]
    /\ queue' = q
    /\ UNCHANGED <<tts, voice_sample_path, generated_audio_path, is_generating,
                   countdown_window, loading_active, loading_dots, boxes, jobs, dialogs,
                   workerWrites>>

\* on_status_update
on_status_update(text, q, ts) ==
    /\ status' = IF widgets THEN text ELSE status
    /\ queue' = q
    /\ timers' = ts
    /\ UNCHANGED <<session, countdown_window, loading, widgets, buttons, panel, boxes,
                   initjob, jobs, dialogs, workerWrites>>

\* on_button_enable
on_button_enable(button, enabled, q, ts) ==
    /\ play_enabled' = IF button = "play" THEN enabled = "on" ELSE play_enabled
    /\ record_enabled' = IF button = "record" THEN enabled = "on" ELSE record_enabled
    /\ queue' = q
    /\ timers' = ts
    /\ UNCHANGED <<session, countdown_window, loading, widgets, status, panel, boxes,
                   initjob, jobs, dialogs, workerWrites>>

\* The history of a job's outcome deliveries: a failure dialog shown for job j.
FailureShown(j) ==
    IF j = 0 THEN /\ initjob' = [initjob EXCEPT !.fail = @ + 1]
                  /\ UNCHANGED jobs
    ELSE IF j \in 1..Len(jobs) THEN /\ jobs' = [jobs EXCEPT ![j].fail = @ + 1]
                                    /\ UNCHANGED initjob
    ELSE UNCHANGED <<initjob, jobs>>

\* on_show_message: QMessageBox.critical opens a blocking dialog
on_show_message(m, q, ts) ==
    /\ boxes' = Append(boxes, Box(m.a, m.b, "none", m.job))
    /\ FailureShown(m.job)
    /\ queue' = q
    /\ timers' = ts
    /\ UNCHANGED <<session, countdown_window, loading, widgets, buttons, status, panel,
                   dialogs, workerWrites>>

\* on_update_countdown
on_update_countdown(remaining, q, ts) ==
    /\ countdown_window' =
          IF countdown_window.seq = 0 THEN countdown_window
          ELSE IF remaining > 0
               THEN [countdown_window EXCEPT !.label = ToString(remaining),
                                             !.sub = "Recording..."]
               ELSE [countdown_window EXCEPT !.label = "Done!",
                                             !.sub = "Recording complete"]
    /\ queue' = q
    /\ timers' = ts
    /\ UNCHANGED <<session, loading, widgets, buttons, status, panel, boxes, initjob,
                   jobs, dialogs, workerWrites>>

\* on_close_countdown
on_close_countdown(q, ts) ==
    /\ countdown_window' = NoWindow
    /\ queue' = q
    /\ timers' = ts
    /\ UNCHANGED <<session, loading, widgets, buttons, status, panel, boxes, initjob,
                   jobs, dialogs, workerWrites>>

\* A variant of on_recording_complete that schedules no sample load;
\* C15_RecordingLoadsItsSample tells on_recording_complete from it.
on_recording_complete_no_load(m, q, ts) ==
    /\ timers' = InsertTimers(ts,
          <<Timer(CloseDelay, "close_countdown", "", "", m.job),
            Timer(LoadSampleDelay, "status_update", StatusRecordingComplete, "", m.job),
            Timer(LoadSampleDelay, "button_enable", "record", "on", m.job)>>)
    /\ jobs' = [jobs EXCEPT ![m.job].succ = @ + 1]
    /\ queue' = q
    /\ UNCHANGED <<session, countdown_window, loading, widgets, buttons, status, panel,
                   boxes, initjob, dialogs, workerWrites>>

\* on_recording_complete
on_recording_complete(m, q, ts) ==
    /\ timers' = InsertTimers(ts,
          <<Timer(CloseDelay, "close_countdown", "", "", m.job),
            Timer(LoadSampleDelay, "load_sample", m.a, m.b, m.job),
            Timer(LoadSampleDelay, "status_update", StatusRecordingComplete, "", m.job),
            Timer(LoadSampleDelay, "button_enable", "record", "on", m.job)>>)
    /\ jobs' = [jobs EXCEPT ![m.job].succ = @ + 1]
    /\ queue' = q
    /\ UNCHANGED <<session, countdown_window, loading, widgets, buttons, status, panel,
                   boxes, initjob, dialogs, workerWrites>>

\* animate_loading(False)
StopLoading ==
    /\ loading_active' = FALSE
    /\ loading_label' = ""
    /\ UNCHANGED loading_dots

\* The frame update_loading displays: "Generating" and loading_dots % 4 dots
LoadingFrame(n) ==
    CASE n % 4 = 0 -> "Generating"
      [] n % 4 = 1 -> "Generating."
      [] n % 4 = 2 -> "Generating.."
      [] n % 4 = 3 -> "Generating..."

\* on_generation_complete; launch is the outcome of subprocess.Popen(["afplay", ...])
on_generation_complete(m, launch, q, ts) ==
    /\ StopLoading
    /\ generated_audio_path' = m.a
    /\ status' = IF launch = "ok" THEN "Speech generated! Auto-playing..."
                 ELSE "ERROR: Failed to play audio."
    /\ timers' = IF launch = "ok"
                 THEN InsertTimer(ts, Timer(TickInterval, "status_update", "Playback started!", "", m.job))
                 ELSE ts
    /\ is_generating' = FALSE
    /\ play_enabled' = TRUE
    /\ record_enabled' = TRUE
    /\ jobs' = [jobs EXCEPT ![m.job].succ = @ + 1]
    /\ queue' = q
    /\ UNCHANGED <<tts, model_loaded, voice_sample_path, countdown_window, widgets,
                   panel, boxes, initjob, dialogs, workerWrites>>

\* A variant of on_generation_error that stores an output path;
\* C14_OnlySuccessStoresOutput tells on_generation_error from it.
on_generation_error_storing(m, q, ts) ==
    /\ StopLoading
    /\ status' = StatusGenerationError
    /\ generated_audio_path' = "output/output.wav"
    /\ boxes' = Append(boxes, Box("Generation Error", m.a, "generation_error", m.job))
    /\ FailureShown(m.job)
    /\ queue' = q
    /\ timers' = ts
    /\ UNCHANGED <<tts, model_loaded, voice_sample_path, is_generating, countdown_window,
                   widgets, buttons, panel, dialogs, workerWrites>>

\* on_generation_error up to QMessageBox.critical, which blocks; the rest of the
\* handler runs when the dialog is dismissed (GenerationErrorDismissed).
on_generation_error(m, q, ts) ==
    /\ StopLoading
    /\ status' = StatusGenerationError
    /\ boxes' = Append(boxes, Box("Generation Error", m.a, "generation_error", m.job))
    /\ FailureShown(m.job)
    /\ queue' = q
    /\ timers' = ts
    /\ UNCHANGED <<session, countdown_window, widgets, buttons, panel, dialogs,
                   workerWrites>>

\* A variant of the end of on_generation_error that leaves is_generating set;
\* C17_GenerateReturnsToIdle tells GenerationErrorDismissed from it.
GenerationErrorDismissedBusy ==
    /\ play_enabled' = TRUE
    /\ record_enabled' = TRUE
    /\ UNCHANGED <<tts, model_loaded, voice_sample_path, generated_audio_path, status,
                   is_generating>>

GenerationErrorDismissed ==
    /\ is_generating' = FALSE
    /\ play_enabled' = TRUE
    /\ record_enabled' = TRUE
    /\ UNCHANGED <<tts, model_loaded, voice_sample_path, generated_audio_path, status>>

\* A variant of load_voice_sample whose except clauses drop the sample that was
\* loaded before; C34_PanelFollowsSample tells load_voice_sample from it.
load_voice_sample_clearing(f, q, ts) ==
    LET v == validate_audio_file(f) IN
    /\ IF v.res = "ok" /\ v.file.readable
       THEN /\ voice_sample_path' = v.file.path
            /\ drop_label' = FALSE
            /\ file_info_frame' = TRUE
            /\ status' = "Voice sample loaded"
            /\ UNCHANGED boxes
       ELSE /\ status' = "Processing audio file..."
            /\ boxes' = Append(boxes,
                  Box("Error",
                      IF v.res = "ValueError" THEN "Audio file is too long"
                      ELSE "Failed to load audio file", "load_error", 0 - 1))
            /\ voice_sample_path' = None
            /\ UNCHANGED panel
    /\ queue' = q
    /\ timers' = ts
    /\ UNCHANGED <<tts, model_loaded, generated_audio_path, is_generating,
                   countdown_window, loading, widgets, buttons, initjob, jobs, dialogs,
                   workerWrites>>

\* load_voice_sample(filepath, display_name) up to its end or to the blocking
\* QMessageBox.critical of its except clauses
load_voice_sample(f, q, ts) ==
    LET v == validate_audio_file(f) IN
    /\ IF v.res = "ok" /\ v.file.readable
       THEN /\ voice_sample_path' = v.file.path
            /\ drop_label' = FALSE
            /\ file_info_frame' = TRUE
            /\ status' = "Voice sample loaded"
            /\ UNCHANGED boxes
       ELSE /\ status' = "Processing audio file..."
            /\ boxes' = Append(boxes,
                  Box("Error",
                      IF v.res = "ValueError" THEN "Audio file is too long"
                      ELSE "Failed to load audio file", "load_error", 0 - 1))
            /\ UNCHANGED <<voice_sample_path, panel>>
    /\ queue' = q
    /\ timers' = ts
    /\ UNCHANGED <<tts, model_loaded, generated_audio_path, is_generating,
                   countdown_window, loading, widgets, buttons, initjob, jobs, dialogs,
                   workerWrites>>

LoadErrorDismissed ==
    /\ status' = "Error: could not load sample"
    /\ UNCHANGED <<session, buttons>>

\* The file a recording job wrote: 5 seconds of 24 kHz mono WAV
RecordSeconds == 5        \* duration = 5
RecordedFile(path) ==
    [path |-> path, ext |-> "wav", dur |-> RecordSeconds * 10, readable |-> TRUE,
     convertible |-> TRUE]

\* The slot a signal is connected to in __init__
Slot(m, q, ts) ==
    CASE m.sig = "model_loaded" -> on_model_loaded(q, ts)
      [] m.sig = "status_update" -> on_status_update(m.a, q, ts)
      [] m.sig = "button_enable" -> on_button_enable(m.a, m.b, q, ts)
      [] m.sig = "load_sample" -> load_voice_sample(RecordedFile(m.a), q, ts)
      [] m.sig = "show_message" -> on_show_message(m, q, ts)
      [] m.sig = "update_countdown" -> on_update_countdown(m.a, q, ts)
      [] m.sig = "close_countdown" -> on_close_countdown(q, ts)
      [] m.sig = "recording_complete" -> on_recording_complete(m, q, ts)
      [] m.sig = "generation_complete" ->
            \E launch \in {"ok", "fail"} : on_generation_complete(m, launch, q, ts)
      [] m.sig = "generation_error" -> on_generation_error(m, q, ts)

\* The slots that arm timers
Arming == {"model_loaded", "recording_complete", "generation_complete"}

\* The event loop delivers the oldest queued signal emission.
DeliverSignal ==
    /\ ~crashed
    /\ UNCHANGED <<cap, advanced_mode, advanced, calls, files>>
    /\ queue # <<>>
    /\ \E e \in IF Head(queue).sig \in Arming THEN Elapsed ELSE {0} :
          Slot(Head(queue), Tail(queue), Elapse(timers, e))

----------------------------------------------------------------------------
(* Timed sequences *)

\* A thread just started.  seq is the countdown sequence that started a record
\* thread; res, succ, fail and wrote are history: the outcome the thread reached,
\* the success and failure handlings the UI thread has run for the job, and whether
\* a record thread wrote its recording file.
NewJob(kind, seq) ==
    [kind |-> kind, pc |-> "start", res |-> "none", succ |-> 0, fail |-> 0,
     seq |-> seq, wrote |-> FALSE]

PendingTick(k, seq) == \E i \in DOMAIN timers : timers[i].k = k /\ timers[i].job = seq

\* Record and generate threads started or committed to start (a running pre-roll
\* starts one recording thread when it ends).
RECURSIVE CountKind(_, _)
CountKind(ts, k) ==
    IF ts = <<>> THEN 0
    ELSE (IF Head(ts).k = k THEN 1 ELSE 0) + CountKind(Tail(ts), k)

Committed == Len(jobs) + CountKind(timers, "pre_countdown")

\* A variant of recording_countdown that schedules remaining - 2;
\* C18_CountdownValues tells recording_countdown from it.
recording_countdown_skipping(remaining, seq, ts) ==
    on_update_countdown(remaining, queue,
        IF remaining > 1
        THEN InsertTimer(ts, Tick(TickInterval, "recording_countdown", remaining - 2, seq))
        ELSE ts)

\* recording_countdown(remaining): shows the value through update_countdown_signal,
\* emitted on the UI thread, and schedules the next value
recording_countdown(remaining, seq, ts) ==
    on_update_countdown(remaining, queue,
        IF remaining > 0
        THEN InsertTimer(ts, Tick(TickInterval, "recording_countdown", remaining - 1, seq))
        ELSE ts)

\* A variant of pre_countdown that starts the record thread one value early, at
\* the callback that displays 1; C31_OneThreadPerRequest tells pre_countdown
\* from it.
pre_countdown_early(remaining, seq, ts) ==
    IF countdown_window.seq = 0
    THEN /\ crashed' = TRUE
         /\ timers' = ts
         /\ UNCHANGED <<session, countdown_window, loading, widgets, buttons, status,
                        panel, queue, boxes, initjob, jobs, nseq, workerWrites>>
    ELSE IF remaining > 1
    THEN /\ countdown_window' = [countdown_window EXCEPT !.label = ToString(remaining),
                                                          !.sub = "Recording starts in"]
         /\ timers' = InsertTimer(ts, Tick(TickInterval, "pre_countdown", remaining - 1, seq))
         /\ UNCHANGED <<session, loading, widgets, buttons, status, panel, queue, boxes,
                        initjob, jobs, dialogs, workerWrites>>
    ELSE /\ countdown_window' = [countdown_window EXCEPT !.label = ToString(RecCountdownStart),
                                                          !.sub = "Recording..."]
         /\ timers' = InsertTimer(ts, Tick(TickInterval, "recording_countdown",
                                            RecCountdownStart - 1, seq))
         /\ jobs' = Append(jobs, NewJob("rec", seq))
         /\ UNCHANGED <<session, loading, widgets, buttons, status, panel, queue, boxes,
                        initjob, dialogs, workerWrites>>

\* pre_countdown(remaining) of show_countdown; at 0 it calls start_recording, which
\* runs recording_countdown(5) and starts the record thread
pre_countdown(remaining, seq, ts) ==
    IF countdown_window.seq = 0
    THEN \* self.countdown_window is None: AttributeError inside a timer callback
         /\ crashed' = TRUE
         /\ timers' = ts
         /\ UNCHANGED <<session, countdown_window, loading, widgets, buttons, status,
                        panel, queue, boxes, initjob, jobs, nseq, workerWrites>>
    ELSE IF remaining > 0
    THEN /\ countdown_window' = [countdown_window EXCEPT !.label = ToString(remaining),
                                                          !.sub = "Recording starts in"]
         /\ timers' = InsertTimer(ts, Tick(TickInterval, "pre_countdown", remaining - 1, seq))
         /\ UNCHANGED <<session, loading, widgets, buttons, status, panel, queue, boxes,
                        initjob, jobs, dialogs, workerWrites>>
    ELSE /\ countdown_window' = [countdown_window EXCEPT !.label = ToString(RecCountdownStart),
                                                          !.sub = "Recording..."]
         /\ timers' = InsertTimer(ts, Tick(TickInterval, "recording_countdown",
                                            RecCountdownStart - 1, seq))
         /\ jobs' = Append(jobs, NewJob("rec", seq))
         /\ UNCHANGED <<session, loading, widgets, buttons, status, panel, queue, boxes,
                        initjob, dialogs, workerWrites>>

\* update_loading, as a fired timer
update_loading(ts) ==
    /\ IF loading_active
       THEN /\ loading_label' = LoadingFrame(loading_dots)
            /\ loading_dots' = (loading_dots + 1) % 4
            /\ timers' = InsertTimer(ts, Timer(LoadingInterval, "update_loading", "", "", 0))
       ELSE /\ timers' = ts
            /\ UNCHANGED <<loading_label, loading_dots>>
    /\ UNCHANGED <<session, countdown_window, loading_active, widgets, buttons, status,
                   panel, queue, boxes, initjob, jobs, dialogs, workerWrites>>

\* The earliest pending timer fires, once the time left to it has passed: the
\* countdown and loading callbacks run directly, a worker thread's lambda emits a
\* signal that is queued, and the other lambdas emit a signal on the UI thread,
\* which calls the slot at once.
FireTimer ==
    /\ ~crashed
    /\ UNCHANGED <<cap, advanced_mode, advanced, calls, files>>
    /\ timers # <<>>
    /\ LET t == Head(timers)
           ts == Elapse(Tail(timers), t.d)
       IN CASE t.k = "pre_countdown" -> pre_countdown(t.n, t.job, ts)
            [] t.k = "recording_countdown" -> recording_countdown(t.n, t.job, ts)
            [] t.k = "update_loading" -> update_loading(ts)
            [] t.k = "emit" ->
                  /\ queue' = Append(queue, Msg(t.a, t.b, "", t.job))
                  /\ timers' = ts
                  /\ UNCHANGED <<session, countdown_window, loading, widgets, buttons,
                                 status, panel, boxes, initjob, jobs, dialogs,
                                 workerWrites>>
            [] OTHER -> Slot(Msg(t.k, t.a, t.b, t.job), queue, ts)

----------------------------------------------------------------------------
(* User operations *)

\* Texts of the input box, as sequences of characters
Texts == { <<>>, <<" ", " ", " ">>, <<" ", "H", "i", " ">> }

RECURSIVE LStrip(_)
LStrip(t) == IF t # <<>> /\ Head(t) = " " THEN LStrip(Tail(t)) ELSE t

RECURSIVE RStrip(_)
RStrip(t) == IF t # <<>> /\ t[Len(t)] = " " THEN RStrip(SubSeq(t, 1, Len(t) - 1)) ELSE t

\* str.strip()
Strip(t) == RStrip(LStrip(t))

\* A variant of generate_and_play without the test of the trimmed text;
\* C12_EmptyTextStartsNothing tells generate_and_play from it.
generate_and_play_any_text(text) ==
    IF is_generating
    THEN UNCHANGED vars
    ELSE IF tts = None
    THEN /\ boxes' = Append(boxes, Box("Error", "Model not loaded yet. Please wait.", "none", 0 - 1))
         /\ UNCHANGED <<session, countdown_window, loading, widgets, buttons, status, panel,
                        queue, timers, initjob, jobs, dialogs, workerWrites>>
    ELSE IF voice_sample_path = None
    THEN /\ boxes' = Append(boxes, Box("Error", "Please select a voice sample or record one first.", "none", 0 - 1))
         /\ UNCHANGED <<session, countdown_window, loading, widgets, buttons, status, panel,
                        queue, timers, initjob, jobs, dialogs, workerWrites>>
    ELSE /\ Committed < cap
         /\ jobs' = Append(jobs, NewJob("gen", 0))
         /\ UNCHANGED <<session, countdown_window, loading, widgets, buttons, status, panel,
                        queue, timers, boxes, initjob, dialogs, workerWrites>>

\* A variant of generate_and_play without the test of self.tts;
\* C8_FailedLoadIsFinal tells generate_and_play from it.
generate_and_play_unchecked(text) ==
    IF is_generating
    THEN UNCHANGED vars
    ELSE IF voice_sample_path = None
    THEN /\ boxes' = Append(boxes, Box("Error", "Please select a voice sample or record one first.", "none", 0 - 1))
         /\ UNCHANGED <<session, countdown_window, loading, widgets, buttons, status, panel,
                        queue, timers, initjob, jobs, dialogs, workerWrites>>
    ELSE IF Strip(text) = <<>>
    THEN /\ boxes' = Append(boxes, Box("Error", "Please enter some text to speak.", "none", 0 - 1))
         /\ UNCHANGED <<session, countdown_window, loading, widgets, buttons, status, panel,
                        queue, timers, initjob, jobs, dialogs, workerWrites>>
    ELSE /\ Committed < cap
         /\ jobs' = Append(jobs, NewJob("gen", 0))
         /\ UNCHANGED <<session, countdown_window, loading, widgets, buttons, status, panel,
                        queue, timers, boxes, initjob, dialogs, workerWrites>>

\* generate_and_play: the Generate button's clicked slot
generate_and_play(text) ==
    IF is_generating
    THEN UNCHANGED vars
    ELSE IF tts = None
    THEN /\ boxes' = Append(boxes, Box("Error", "Model not loaded yet. Please wait.", "none", 0 - 1))
         /\ UNCHANGED <<session, countdown_window, loading, widgets, buttons, status, panel,
                        queue, timers, initjob, jobs, dialogs, workerWrites>>
    ELSE IF voice_sample_path = None
    THEN /\ boxes' = Append(boxes, Box("Error", "Please select a voice sample or record one first.", "none", 0 - 1))
         /\ UNCHANGED <<session, countdown_window, loading, widgets, buttons, status, panel,
                        queue, timers, initjob, jobs, dialogs, workerWrites>>
    ELSE IF Strip(text) = <<>>
    THEN /\ boxes' = Append(boxes, Box("Error", "Please enter some text to speak.", "none", 0 - 1))
         /\ UNCHANGED <<session, countdown_window, loading, widgets, buttons, status, panel,
                        queue, timers, initjob, jobs, dialogs, workerWrites>>
    ELSE /\ Committed < cap
         /\ jobs' = Append(jobs, NewJob("gen", 0))
         /\ UNCHANGED <<session, countdown_window, loading, widgets, buttons, status, panel,
                        queue, timers, boxes, initjob, dialogs, workerWrites>>

GenerateAndPlay ==
    /\ UserCanAct
    /\ UNCHANGED <<cap, advanced_mode, advanced, calls, files>>
    /\ play_enabled
    /\ \E text \in Texts : generate_and_play(text)

\* A variant of record_audio without the test of self.is_generating;
\* C3_BusyRecordRejected tells record_audio from it.
record_audio_unchecked ==
    /\ Committed < cap
    /\ nseq' = nseq + 1
    /\ countdown_window' = [seq |-> nseq + 1, label |-> ToString(PreRollStart),
                            sub |-> "Recording starts in"]
    /\ \E e \in Elapsed :
          timers' = InsertTimer(Elapse(timers, e),
                                Tick(TickInterval, "pre_countdown",
                                      PreRollStart - 1, nseq + 1))
    /\ UNCHANGED <<session, loading, widgets, buttons, status, panel, queue, boxes,
                   initjob, jobs, crashed, workerWrites>>

\* record_audio: the Record button's clicked slot, with show_countdown and its
\* first pre_countdown(3)
record_audio ==
    IF is_generating
    THEN /\ boxes' = Append(boxes, Box("Busy", "Please wait for current operation to complete.", "none", 0 - 1))
         /\ UNCHANGED <<session, countdown_window, loading, widgets, buttons, status, panel,
                        queue, timers, initjob, jobs, dialogs, workerWrites>>
    ELSE /\ Committed < cap
         /\ nseq' = nseq + 1
         /\ countdown_window' = [seq |-> nseq + 1, label |-> ToString(PreRollStart),
                                 sub |-> "Recording starts in"]
         /\ \E e \in Elapsed :
               timers' = InsertTimer(Elapse(timers, e),
                                     Tick(TickInterval, "pre_countdown",
                                           PreRollStart - 1, nseq + 1))
         /\ UNCHANGED <<session, loading, widgets, buttons, status, panel, queue, boxes,
                        initjob, jobs, crashed, workerWrites>>

RecordAudio ==
    /\ UserCanAct
    /\ UNCHANGED <<cap, advanced_mode, advanced, calls, files>>
    /\ record_enabled
    /\ record_audio

\* The files the user has at hand in Spec: one that loads and one that is refused
Offered == {f \in SampleFiles : f.path \in {"clip.wav", "long.WAV"}}

\* A file dropped on the drop zone or chosen in the file dialog
LoadSample ==
    /\ UserCanAct
    /\ UNCHANGED <<cap, advanced_mode, advanced, calls, files>>
    /\ \E f \in Offered : load_voice_sample(f, queue, timers)

\* A variant of Converts in which validate_audio_file converts before it compares
\* the duration; C35_DurationBeforeConversion tells Converts from it.
ConvertsUnchecked(f) == f.readable /\ ~EndsWithWav(f)

\* validate_audio_file(f) gets as far as convert_to_wav(f)
Converts(f) == f.readable /\ f.dur <= MaxDuration /\ ~EndsWithWav(f)

\* The output file of convert_to_wav(f) exists already
Collides(f) == Converts(f) /\ convert_to_wav(f).path \in written

\* The writes of convert_to_wav(f) to its output file
WriteConverted(f) ==
    /\ written' = IF Converts(f) /\ f.convertible
                  THEN written \cup {convert_to_wav(f).path} ELSE written
    /\ rewritten' = IF Collides(f) /\ f.convertible
                    THEN rewritten \cup {convert_to_wav(f).path} ELSE rewritten
    /\ UNCHANGED <<now, model_dirs>>

\* Any file dropped on the drop zone or chosen in the file dialog.  ffmpeg is run
\* without -y and does not overwrite an existing output file on its own: then the
\* file is written by sf.write in the fallback, or by ffmpeg once its question is
\* answered (rewrite), or the conversion fails.
LoadAnySample ==
    /\ UserCanAct
    /\ UNCHANGED <<cap, advanced_mode, advanced, calls>>
    /\ \E f \in SampleFiles, rewrite \in BOOLEAN :
          /\ ~Collides(f) => rewrite
          /\ LET g == IF rewrite THEN f ELSE [f EXCEPT !.convertible = FALSE]
             IN /\ load_voice_sample(g, queue, timers)
                /\ WriteConverted(g)

\* The clock reaches the next whole second
ClockSecond ==
    /\ ~crashed
    /\ now < MaxSeconds
    /\ now' = now + 1
    /\ UNCHANGED <<session, countdown_window, loading, widgets, buttons, status, panel,
                   queue, timers, boxes, initjob, jobs, dialogs, workerWrites, cap,
                   advanced_mode, advanced, calls, written, rewritten, model_dirs>>

\* remove_file: the remove button's clicked slot; the button lies in file_info_frame
\* A variant of remove_file that flips the two panels instead of setting them;
\* C20_RemoveFileIdempotent tells remove_file from it.
remove_file_toggling ==
    /\ voice_sample_path' = None
    /\ file_info_frame' = ~file_info_frame
    /\ drop_label' = ~drop_label
    /\ status' = "File removed"
    /\ UNCHANGED <<tts, model_loaded, generated_audio_path, is_generating,
                   countdown_window, loading, widgets, buttons, queue, timers, boxes,
                   initjob, jobs, dialogs, workerWrites>>

remove_file ==
    /\ voice_sample_path' = None
    /\ file_info_frame' = FALSE
    /\ drop_label' = TRUE
    /\ status' = "File removed"
    /\ UNCHANGED <<tts, model_loaded, generated_audio_path, is_generating,
                   countdown_window, loading, widgets, buttons, queue, timers, boxes,
                   initjob, jobs, dialogs, workerWrites>>

RemoveFile ==
    /\ UserCanAct
    /\ UNCHANGED <<cap, advanced_mode, advanced, calls, files>>
    /\ file_info_frame
    /\ remove_file

\* A variant of toggle_mode that switches to the advanced mode instead of
\* flipping the mode, and stops the timers; C32_ToggleOnlyMode tells toggle_mode
\* from it.
toggle_mode_resetting ==
    /\ advanced_mode' = TRUE
    /\ timers' = <<>>
    /\ UNCHANGED <<session, countdown_window, loading, widgets, buttons, status, panel,
                   queue, boxes, initjob, jobs, dialogs, workerWrites>>

\* toggle_mode: the mode button's clicked slot
toggle_mode ==
    /\ advanced_mode' = ~advanced_mode
    /\ UNCHANGED <<session, countdown_window, loading, widgets, buttons, status, panel,
                   queue, timers, boxes, initjob, jobs, dialogs, workerWrites>>

ToggleMode ==
    /\ UserCanAct
    /\ UNCHANGED <<cap, advanced, calls, files>>
    /\ toggle_mode

\* The values the user gives the advanced controls
DefaultMaxMelTokens == 1500
EmoEdited == {8}
EmoValues == {0, 7}
EmotionTexts == { <<>>, <<" ", "s", "a", "d">> }
MelChoices == {50, DefaultMaxMelTokens}
PenaltyChoices == {0 - 20, 0}

\* The advanced section is on screen and the main window takes input
AdvancedCanAct == UserCanAct /\ advanced_mode

\* A spin box of the emotion vector is edited; on_emotion_text_toggled disables
\* the spin boxes while the check box is checked (their values stay)
SetEmotion ==
    /\ AdvancedCanAct
    /\ ~use_emo_text
    /\ \E i \in EmoEdited, v \in EmoValues :
          /\ emo_vec[i] # v
          /\ emo_vec' = [emo_vec EXCEPT ![i] = v]
    /\ UNCHANGED <<session, countdown_window, loading, widgets, buttons, status, panel,
                   queue, timers, boxes, initjob, jobs, dialogs, workerWrites, cap,
                   advanced_mode, use_emo_text, emo_text, use_fixed_length,
                   max_mel_tokens, length_penalty, calls, files>>

\* The check box "Use emotion text instead of vector" is clicked
ToggleEmotionText ==
    /\ AdvancedCanAct
    /\ use_emo_text' = ~use_emo_text
    /\ UNCHANGED <<session, countdown_window, loading, widgets, buttons, status, panel,
                   queue, timers, boxes, initjob, jobs, dialogs, workerWrites, cap,
                   advanced_mode, emo_vec, emo_text, use_fixed_length, max_mel_tokens,
                   length_penalty, calls, files>>

\* The emotion text is edited
EditEmotionText ==
    /\ AdvancedCanAct
    /\ \E t \in EmotionTexts :
          /\ t # emo_text
          /\ emo_text' = t
    /\ UNCHANGED <<session, countdown_window, loading, widgets, buttons, status, panel,
                   queue, timers, boxes, initjob, jobs, dialogs, workerWrites, cap,
                   advanced_mode, emo_vec, use_emo_text, use_fixed_length, max_mel_tokens,
                   length_penalty, calls, files>>

\* The check box "Use fixed length" is clicked; on_fixed_length_toggled enables
\* the two spin boxes while it is checked
ToggleFixedLength ==
    /\ AdvancedCanAct
    /\ use_fixed_length' = ~use_fixed_length
    /\ UNCHANGED <<session, countdown_window, loading, widgets, buttons, status, panel,
                   queue, timers, boxes, initjob, jobs, dialogs, workerWrites, cap,
                   advanced_mode, emo_vec, use_emo_text, emo_text, max_mel_tokens,
                   length_penalty, calls, files>>

\* One of the two spin boxes of the fixed length is edited
SetLength ==
    /\ AdvancedCanAct
    /\ use_fixed_length
    /\ \E m \in MelChoices, p \in PenaltyChoices :
          /\ <<m, p>> # <<max_mel_tokens, length_penalty>>
          /\ (m = max_mel_tokens \/ p = length_penalty)
          /\ max_mel_tokens' = m
          /\ length_penalty' = p
    /\ UNCHANGED <<session, countdown_window, loading, widgets, buttons, status, panel,
                   queue, timers, boxes, initjob, jobs, dialogs, workerWrites, cap,
                   advanced_mode, emo_vec, use_emo_text, emo_text, use_fixed_length, calls, files>>

\* play_voice_sample: the play button of the file-info panel.  exists is
\* os.path.exists of the sample, launch the outcome of subprocess.Popen.
play_voice_sample(exists, launch) ==
    /\ IF voice_sample_path # None /\ exists
       THEN IF launch = "ok"
            THEN /\ status' = "Playing: sample"
                 /\ UNCHANGED boxes
            ELSE /\ boxes' = Append(boxes, Box("Error", "Failed to play audio", "none", 0 - 1))
                 /\ UNCHANGED status
       ELSE /\ boxes' = Append(boxes, Box("No File", "No voice sample loaded to play.", "none", 0 - 1))
            /\ UNCHANGED status
    /\ UNCHANGED <<session, countdown_window, loading, widgets, buttons, panel,
                   queue, timers, initjob, jobs, dialogs, workerWrites>>

PlaySample ==
    /\ UserCanAct
    /\ file_info_frame
    /\ UNCHANGED <<cap, advanced_mode, advanced, calls, files>>
    /\ \E exists \in BOOLEAN, launch \in {"ok", "fail"} : play_voice_sample(exists, launch)

\* The user dismisses the innermost message box; the handler that opened it goes on.
DismissBox ==
    /\ ~crashed
    /\ UNCHANGED <<cap, advanced_mode, advanced, calls, files>>
    /\ boxes # <<>>
    /\ ~Expired
    /\ boxes' = SubSeq(boxes, 1, Len(boxes) - 1)
    /\ LET cont == boxes[Len(boxes)].cont IN
       CASE cont = "generation_error" -> GenerationErrorDismissed
         [] cont = "load_error" -> LoadErrorDismissed
         [] OTHER -> UNCHANGED <<session, buttons, status>>
    /\ UNCHANGED <<countdown_window, loading, widgets, panel, queue, timers, initjob,
                   jobs, dialogs, workerWrites>>

----------------------------------------------------------------------------
(* The generate thread *)

\* Parameters of generate_speech (voice_clone_model.py) and the keyword arguments
\* generate() passes besides the four positional ones
GenerateSpeechParams == {"model", "voice_sample_path", "text", "output_path"}
GenerateKeywords == {"emo_vector", "use_emo_text", "emo_text", "max_mel_tokens",
                     "length_penalty"}

\* Outcomes of the call generate_speech(...): Python raises TypeError for a keyword
\* the function does not take, before model.infer is reached; otherwise
\* model.infer returns or raises.
GenerateSpeechOutcomes ==
    IF GenerateKeywords \subseteq GenerateSpeechParams
    THEN {"ok", "raise"}
    ELSE {"TypeError"}

\* self.is_generating = True, the thread's first statement
GenerateFlag(j) ==
    /\ ~crashed
    /\ jobs[j].kind = "gen"
    /\ jobs[j].pc = "start"
    /\ is_generating' = TRUE
    /\ workerWrites' = workerWrites \cup {"is_generating"}
    /\ jobs' = [jobs EXCEPT ![j].pc = "ui"]
    /\ UNCHANGED <<tts, model_loaded, voice_sample_path, generated_audio_path,
                   countdown_window, loading, widgets, buttons, status, panel, queue,
                   timers, boxes, initjob, dialogs, calls>>

\* play_button.setEnabled(False), record_button.setEnabled(False),
\* animate_loading(True) and status_label.setText(""), all called on the worker
\* thread.  Widget calls off the UI thread may take effect or bring the process
\* down (works); the QTimer.singleShot of update_loading is armed on the worker
\* thread and fires only if that thread has an event loop (hasLoop).
GenerateUi(j) ==
    /\ ~crashed
    /\ jobs[j].kind = "gen"
    /\ jobs[j].pc = "ui"
    /\ \E works \in BOOLEAN, hasLoop \in BOOLEAN :
          IF works
          THEN /\ play_enabled' = FALSE
               /\ record_enabled' = FALSE
               /\ loading_active' = TRUE
               /\ loading_label' = LoadingFrame(0)
               /\ loading_dots' = 1
               /\ status' = ""
               /\ \E e \in IF hasLoop THEN Elapsed ELSE {0} :
                     timers' = IF hasLoop
                               THEN InsertTimer(Elapse(timers, e),
                                                Timer(LoadingInterval, "update_loading", "", "", j))
                               ELSE timers
               /\ workerWrites' = workerWrites \cup {"play_button", "record_button"}
               /\ jobs' = [jobs EXCEPT ![j].pc = "infer"]
               /\ UNCHANGED crashed
          ELSE /\ crashed' = TRUE
               /\ UNCHANGED <<buttons, loading, status, timers, workerWrites, jobs>>
    /\ UNCHANGED <<session, countdown_window, widgets, panel, queue, boxes, initjob, nseq,
                   calls>>

\* An optional argument: None, or a value
Absent == <<>>
Some(x) == <<x>>

\* A variant of the collection that reads the controls in Easy mode too;
\* C22_OptionalsNeedAdvanced tells CollectParameters from it.
CollectParametersAnyMode ==
    [adv |-> advanced_mode,
     checked |-> use_emo_text,
     fixed |-> use_fixed_length,
     emo_vector |-> IF ~(\A i \in 1..8 : emo_vec[i] = 0) THEN Some(emo_vec) ELSE Absent,
     use_emo_text |-> use_emo_text,
     emo_text |-> IF use_emo_text /\ Strip(emo_text) # <<>>
                  THEN Some(Strip(emo_text)) ELSE Absent,
     max_mel_tokens |-> IF use_fixed_length THEN Some(max_mel_tokens) ELSE Absent,
     length_penalty |-> IF use_fixed_length THEN Some(length_penalty) ELSE Absent]

\* The advanced parameters generate() collects for generate_speech.  adv, checked
\* and fixed are history: the three conditions as generate() found them.
CollectParameters ==
    LET adv == advanced_mode
    IN [adv |-> adv,
        checked |-> use_emo_text,
        fixed |-> use_fixed_length,
        emo_vector |-> IF adv /\ Len(emo_vec) = 8 /\ ~(\A i \in 1..8 : emo_vec[i] = 0)
                       THEN Some(emo_vec) ELSE Absent,
        use_emo_text |-> adv /\ use_emo_text,
        emo_text |-> IF adv /\ use_emo_text /\ Strip(emo_text) # <<>>
                     THEN Some(Strip(emo_text)) ELSE Absent,
        max_mel_tokens |-> IF adv /\ use_fixed_length THEN Some(max_mel_tokens) ELSE Absent,
        length_penalty |-> IF adv /\ use_fixed_length THEN Some(length_penalty) ELSE Absent]

\* The arguments of the call generate_speech(self.tts, self.voice_sample_path, ...):
\* the sample is the value the attribute has when the thread evaluates the call
GenerateSpeechCall == CollectParameters @@ [sample |-> voice_sample_path]

\* The try block of generate(): the collection of the advanced parameters, the
\* call of generate_speech and the emission of the outcome
GenerateInfer(j) ==
    /\ ~crashed
    /\ jobs[j].kind = "gen"
    /\ jobs[j].pc = "infer"
    /\ calls' = Append(calls, GenerateSpeechCall)
    /\ \E r \in GenerateSpeechOutcomes :
          /\ jobs' = [jobs EXCEPT ![j].pc = "done", ![j].res = IF r = "ok" THEN "ok" ELSE "fail"]
          /\ queue' = Append(queue,
                IF r = "ok" THEN Msg("generation_complete", "output/output.wav", "", j)
                ELSE Msg("generation_error", r, "", j))
    /\ UNCHANGED <<session, countdown_window, loading, widgets, buttons, status, panel,
                   timers, boxes, initjob, dialogs, workerWrites>>

----------------------------------------------------------------------------
(* The record thread *)

\* Peak absolute amplitude of the captured buffer, in units of 0.0001
SilenceThreshold == 10    \* np.max(np.abs(recording)) < 0.001
Peaks == {0, 9, 10, 11}

\* A variant of the except clauses that neither closes the countdown dialog nor
\* enables the Record button; C30_RecordingOutcomeSettles tells RecordFailure
\* from it.
RecordFailureOpen(j, text) ==
    << Msg("status_update", text, "", j),
       Msg("show_message", "Error", text, j) >>

\* A variant of the except clauses that emits close_countdown_signal once more
\* after the Record button is enabled again; C39_TickFindsDialog tells
\* RecordFailure from it.
RecordFailureClosingTwice(j, text) ==
    << Msg("close_countdown", "", "", j),
       Msg("status_update", text, "", j),
       Msg("show_message", "Error", text, j),
       Msg("button_enable", "record", "on", j),
       Msg("close_countdown", "", "", j) >>

\* The four emissions of either except clause of record()
RecordFailure(j, text) ==
    << Msg("close_countdown", "", "", j),
       Msg("status_update", text, "", j),
       Msg("show_message", "Error", text, j),
       Msg("button_enable", "record", "on", j) >>

\* The imports and the two emissions that open record()
RecordStart(j) ==
    /\ ~crashed
    /\ jobs[j].kind = "rec"
    /\ jobs[j].pc = "start"
    /\ \E imp \in {"ok", "ImportError"} :
          IF imp = "ok"
          THEN /\ queue' = queue \o << Msg("button_enable", "record", "off", j),
                                      Msg("status_update", StatusRecording, "", j) >>
               /\ jobs' = [jobs EXCEPT ![j].pc = "rec"]
          ELSE /\ queue' = queue \o RecordFailure(j, StatusRecordingFailed)
               /\ jobs' = [jobs EXCEPT ![j].pc = "done", ![j].res = "fail"]
    /\ UNCHANGED <<session, countdown_window, loading, widgets, buttons, status, panel,
                   timers, boxes, initjob, dialogs, workerWrites, calls>>

\* np.max(np.abs(recording)) < 0.001, with a variant that also takes a peak at
\* the threshold for silence; C16_SilenceFails tells IsSilent from it.
IsSilentInclusive(peak) == peak <= SilenceThreshold

IsSilent(peak) == peak < SilenceThreshold

\* sd.rec and sd.wait, the silence check, sf.write and the emission of the outcome,
\* for a device outcome dev and a captured peak.
\* sd.wait() returns once RecordSeconds of audio are captured: the thread was started
\* together with recording_countdown(5), so that countdown has run down by then.  An
\* exception (device error, missing file) can be raised at any time.
RecordCaptureWith(j, dev, peak) ==
    /\ ~crashed
    /\ jobs[j].kind = "rec"
    /\ jobs[j].pc = "rec"
    /\ dev = "ok" => ~PendingTick("recording_countdown", jobs[j].seq)
    /\ IF dev = "ok" /\ ~IsSilent(peak)
       THEN /\ queue' = Append(queue, Msg("recording_complete",
                                          "recordings/recorded.wav", "Recorded", j))
            /\ jobs' = [jobs EXCEPT ![j].pc = "done", ![j].res = "ok", ![j].wrote = TRUE]
       ELSE /\ queue' = queue \o
                  RecordFailure(j, IF dev = "FileNotFoundError" THEN "ERROR: ffmpeg not found"
                                   ELSE IF dev = "ok" THEN StatusRecordingSilent
                                   ELSE StatusRecordingFailed)
            /\ jobs' = [jobs EXCEPT ![j].pc = "done", ![j].res = "fail"]
    /\ UNCHANGED <<session, countdown_window, loading, widgets, buttons, status, panel,
                   timers, boxes, initjob, dialogs, workerWrites, calls>>

RecordCapture(j) ==
    \E dev \in {"ok", "FileNotFoundError", "Exception"}, peak \in Peaks :
        RecordCaptureWith(j, dev, peak)

----------------------------------------------------------------------------
(* The program *)

\* The state __init__ leaves: the loading screen is shown, no main widget exists
\* yet, and the init_model thread has been started.  c is the number of record and
\* generate threads the run goes on to start.
StartOn(c, dirs) ==
    /\ cap = c
    /\ model_dirs = dirs
    /\ advanced_mode = FALSE
    /\ emo_vec = [i \in 1..8 |-> 0]
    /\ use_emo_text = FALSE
    /\ emo_text = <<>>
    /\ use_fixed_length = FALSE
    /\ max_mel_tokens = DefaultMaxMelTokens
    /\ length_penalty = 0
    /\ calls = <<>>
    /\ now = 0
    /\ written = {}
    /\ rewritten = {}
    /\ tts = None
    /\ model_loaded = FALSE
    /\ voice_sample_path = None
    /\ generated_audio_path = None
    /\ is_generating = FALSE
    /\ countdown_window = NoWindow
    /\ loading_active = FALSE
    /\ loading_dots = 0
    /\ loading_label = ""
    /\ widgets = FALSE
    /\ play_enabled = FALSE
    /\ record_enabled = FALSE
    /\ status = None
    /\ file_info_frame = FALSE
    /\ drop_label = FALSE
    /\ queue = <<>>
    /\ timers = <<>>
    /\ boxes = <<>>
    /\ initjob = [pc |-> "run", res |-> "none", succ |-> 0, fail |-> 0]
    /\ jobs = <<>>
    /\ nseq = 0
    /\ crashed = FALSE
    /\ workerWrites = {}

\* A run that may find anything at the two model locations
Start(c) == StartOn(c, ModelDirs)

Init == Start(MaxJobs)

InitSolo == Start(MaxSoloJobs)

\* A run in which the user only loads and removes samples
InitSamples == Start(0)

Worker ==
    /\ UNCHANGED <<cap, advanced_mode, advanced, files>>
    /\ \E j \in 1..Len(jobs) :
          \/ GenerateFlag(j)
          \/ GenerateUi(j)
          \/ GenerateInfer(j)
          \/ RecordStart(j)
          \/ RecordCapture(j)

Next ==
    \/ InitModel
    \/ Worker
    \/ DeliverSignal
    \/ FireTimer
    \/ GenerateAndPlay
    \/ RecordAudio
    \/ LoadSample
    \/ RemoveFile
    \/ DismissBox

Spec == Init /\ [][Next]_vars

\* The same program with fewer threads started
SpecSolo == InitSolo /\ [][Next]_vars

\* The event loop and the threads keep running: an expired timer fires, a queued
\* emission is delivered, a started thread goes on.  The user owes nothing.
FairSolo ==
    /\ SpecSolo
    /\ WF_vars(FireTimer)
    /\ WF_vars(DeliverSignal)
    /\ WF_vars(Worker)

\* The same, with a user who dismisses every message box in the end
FairSoloUser ==
    /\ FairSolo
    /\ WF_vars(DismissBox)

\* The program with the advanced controls in use and one generate thread
NextAdvanced ==
    \/ InitModel
    \/ Worker
    \/ DeliverSignal
    \/ FireTimer
    \/ GenerateAndPlay
    \/ LoadSample
    \/ DismissBox
    \/ ToggleMode
    \/ SetEmotion
    \/ ToggleEmotionText
    \/ EditEmotionText
    \/ ToggleFixedLength
    \/ SetLength

SpecAdvanced == InitSolo /\ [][NextAdvanced]_vars

\* The program with the mode button and the sample's play button in use
NextAll ==
    \/ Next
    \/ ToggleMode
    \/ PlaySample

SpecAll == InitSolo /\ [][NextAll]_vars

\* The program while the user only manages the voice sample, with every kind of
\* file at hand
NextSamples ==
    \/ InitModel
    \/ DeliverSignal
    \/ FireTimer
    \/ LoadAnySample
    \/ RemoveFile
    \/ DismissBox

\* The same run on each state of the two model locations
InitDiscovery == \E fs \in ModelDirs : StartOn(0, {fs})

SpecDiscovery == InitDiscovery /\ [][NextSamples]_vars

\* The same run with the clock going
NextFiles ==
    \/ InitModel
    \/ DeliverSignal
    \/ FireTimer
    \/ LoadAnySample
    \/ RemoveFile
    \/ DismissBox
    \/ ClockSecond

SpecFiles == InitSamples /\ [][NextFiles]_vars

SpecSamples == InitSamples /\ [][NextSamples]_vars

----------------------------------------------------------------------------
(* Vocabulary of the properties *)

\* load_model raised in the init_model thread
InitFailed == initjob.res \in {"notfound", "error"}

\* A started thread whose outcome the UI thread has not handled yet
InitInFlight == initjob.succ + initjob.fail = 0
InFlight(j) == jobs[j].succ + jobs[j].fail = 0
JobsInFlight == {j \in 1..Len(jobs) : InFlight(j)}

\* Nothing is left to run: no thread, no queued emission, no timer, no dialog
Quiescent ==
    /\ ~crashed
    /\ initjob.pc = "done"
    /\ \A j \in 1..Len(jobs) : jobs[j].pc = "done"
    /\ queue = <<>>
    /\ timers = <<>>
    /\ boxes = <<>>

BusyBox == Box("Busy", "Please wait for current operation to complete.", "none", 0 - 1)
ModelMissingBox == Box("Error", "Model not loaded yet. Please wait.", "none", 0 - 1)
NoSampleBox == Box("Error", "Please select a voice sample or record one first.", "none", 0 - 1)
EmptyTextBox == Box("Error", "Please enter some text to speak.", "none", 0 - 1)
TooLongBox == Box("Error", "Audio file is too long", "load_error", 0 - 1)

\* The place in timers of the first timer of kind k (with first argument a) that
\* the handling of job j armed; 0 if none is pending
TimerAt(k, a, j) ==
    LET at == {i \in DOMAIN timers : timers[i].k = k /\ timers[i].job = j /\ timers[i].a = a}
    IN IF at = {} THEN 0 ELSE CHOOSE i \in at : \A i2 \in at : i <= i2

RecordedPath == "recordings/recorded.wav"
RecordedLabel == "Recorded"

\* The timers of on_recording_complete for job j
CloseAt(j) == TimerAt("close_countdown", "", j)
LoadAt(j) == TimerAt("load_sample", RecordedPath, j)
EnableAt(j) == TimerAt("button_enable", "record", j)

\* The error dialog of generate thread j is open
GenerationBoxOpen(j) ==
    \E i \in DOMAIN boxes : boxes[i].cont = "generation_error" /\ boxes[i].job = j

\* The handler of generate thread j's outcome has run to its end and left the
\* session idle
BackToIdle(j) ==
    /\ j <= Len(jobs)
    /\ jobs[j].succ + jobs[j].fail = 1
    /\ ~GenerationBoxOpen(j)
    /\ ~is_generating
    /\ play_enabled
    /\ record_enabled
    /\ ~loading_active
    /\ loading_label = ""

\* Every emission and timer that thread j or the handling of its outcome caused
\* has been processed
Applied(j) ==
    /\ j <= Len(jobs)
    /\ jobs[j].pc = "done"
    /\ jobs[j].succ + jobs[j].fail = 1
    /\ \A i \in DOMAIN queue : queue[i].job # j
    /\ \A i \in DOMAIN timers : timers[i].k \in {"pre_countdown", "recording_countdown"}
                                  \/ timers[i].job # j

\* What every call of remove_file leaves behind
Removed ==
    /\ voice_sample_path = None
    /\ ~file_info_frame
    /\ drop_label
    /\ status = "File removed"

\* The countdown callbacks
TickKinds == {"pre_countdown", "recording_countdown"}

\* The pending callbacks of countdown sequence s in ts
TicksOf(s, ts) == {i \in DOMAIN ts : ts[i].k \in TickKinds /\ ts[i].job = s}

\* Callback k with argument n of sequence s is pending in ts
TickPending(k, n, s, ts) ==
    \E i \in TicksOf(s, ts) : ts[i].k = k /\ ts[i].n = n

\* This step leaves callback k with argument n of sequence s due in exactly one
\* timer interval, and nothing else of s pending
TickDue(k, n, s) ==
    /\ \E i \in TicksOf(s, timers') :
          timers'[i].k = k /\ timers'[i].n = n /\ timers'[i].d = TickInterval
    /\ Cardinality(TicksOf(s, timers')) = 1

\* The step in which the pending callback k with argument n runs (and the
\* process survives it)
TickFires(k, n) ==
    /\ timers # <<>>
    /\ Head(timers).k = k
    /\ Head(timers).n = n
    /\ ~TickPending(k, n, Head(timers).job, timers')
    /\ ~crashed'

\* The step shows text in the countdown dialog, if there is one
Shows(text) == countdown_window.seq # 0 => countdown_window'.label = text

\* The files whose duration can be probed and is above the limit
TooLong == {f \in SampleFiles : f.readable /\ f.dur > MaxDuration}

\* The step in which the last timer of on_model_loaded fires
RecordEnableFires ==
    /\ timers # <<>>
    /\ Head(timers).k = "button_enable"
    /\ Head(timers).a = "record"
    /\ Head(timers).job = 0
    /\ Len(timers') = Len(timers) - 1

----------------------------------------------------------------------------
(* Properties *)

\* C1: in every reachable state at most one background job (the model-load, a
\* recording or a synthesis thread) is in flight, that is, started and with its
\* outcome not yet handled on the UI thread.
C1_AtMostOneJobInFlight ==
    Cardinality(JobsInFlight) + (IF InitInFlight THEN 1 ELSE 0) <= 1

\* C2: a second generate_and_play that comes before the first generate thread has
\* run its first statement starts no second thread: never do two generate threads
\* stand before their first statement.
C2_OneUnflaggedGenerate ==
    Cardinality({j \in 1..Len(jobs) : jobs[j].kind = "gen" /\ jobs[j].pc = "start"}) <= 1

\* C3: record_audio invoked while is_generating holds opens the Busy dialog and
\* leaves the countdown dialog, the pending ticks and the threads as they are.
C3_BusyRecordRejected ==
    [][(RecordAudio /\ is_generating) =>
          /\ boxes' = Append(boxes, BusyBox)
          /\ UNCHANGED <<countdown_window, nseq, timers, jobs>>]_vars

\* A Busy dialog is open: record_audio was invoked while is_generating held
C3_Witness ==
    /\ is_generating
    /\ boxes # <<>>
    /\ boxes[Len(boxes)] = BusyBox
    /\ countdown_window = NoWindow

\* C4: in every reachable state is_generating holds if and only if exactly one
\* recording or synthesis job is in flight.
C4_BusyIffOneJob ==
    is_generating <=> (Cardinality(JobsInFlight) = 1)

\* C5: every job is handled by the success handling or by the failure handling
\* that matches the outcome its thread reached, never by both and never twice.
C5_OneMatchingOutcome ==
    /\ initjob.succ + initjob.fail <= 1
    /\ initjob.succ > 0 => initjob.res = "ok"
    /\ initjob.fail > 0 => InitFailed
    /\ \A j \in 1..Len(jobs) :
          /\ jobs[j].succ + jobs[j].fail <= 1
          /\ jobs[j].succ > 0 => jobs[j].res = "ok"
          /\ jobs[j].fail > 0 => jobs[j].res = "fail"

\* C6: no step of a worker thread writes a session field or the enabled state of
\* the Generate or Record button.
C6_NoWorkerWrites ==
    workerWrites = {}

\* C7: once the model load has failed, the Generate and Record buttons are
\* disabled in every state.
C7_FailedLoadDisables ==
    InitFailed => (~play_enabled /\ ~record_enabled)

\* C8: once the model load has failed, tts stays None, the init_model thread is
\* never started again, and every generate_and_play opens the model-missing
\* dialog and starts no thread.
C8_FailedLoadIsFinal ==
    /\ [](InitFailed => tts = None)
    /\ [][initjob.pc = "done" => initjob'.pc = "done"]_vars
    /\ [][(InitFailed /\ GenerateAndPlay) =>
             /\ boxes' = Append(boxes, ModelMissingBox)
             /\ UNCHANGED <<jobs, tts, is_generating>>]_vars

\* The model load has failed and a generate_and_play was answered with the
\* model-missing dialog although a voice sample is loaded
C8_Witness ==
    /\ InitFailed
    /\ tts = None
    /\ voice_sample_path # None
    /\ boxes # <<>>
    /\ boxes[Len(boxes)] = ModelMissingBox
    /\ jobs = <<>>

\* C9: no failure is dropped: when nothing is left to run, every job whose thread
\* failed has had its error dialog exactly once.
C9_NoFailureDropped ==
    Quiescent =>
        /\ InitFailed => initjob.fail = 1
        /\ \A j \in 1..Len(jobs) : jobs[j].res = "fail" => jobs[j].fail = 1

\* C10: the Generate and Record buttons are disabled until on_model_loaded has
\* run; when it runs after a successful load, tts is set and is_generating is
\* false; and when the last of its timers fires, both buttons are enabled and
\* the status line shows the ready message.
C10_ControlsFollowModelLoad ==
    /\ [](initjob.succ = 0 => (~play_enabled /\ ~record_enabled))
    /\ [][(initjob.res = "ok" /\ initjob.succ = 0 /\ initjob'.succ = 1) =>
             /\ tts' = "IndexTTS2"
             /\ ~is_generating'
             /\ ~play_enabled'
             /\ ~record_enabled']_vars
    /\ [][(initjob.res = "ok" /\ RecordEnableFires) =>
             /\ tts' = "IndexTTS2"
             /\ ~is_generating'
             /\ play_enabled'
             /\ record_enabled'
             /\ status' = StatusReady]_vars

\* The load succeeded and its handling has run to the end: ready and idle
C10_Witness ==
    /\ initjob.res = "ok"
    /\ initjob.succ = 1
    /\ tts = "IndexTTS2"
    /\ ~is_generating
    /\ play_enabled
    /\ record_enabled
    /\ status = StatusReady
    /\ timers = <<>>

\* C11: load_voice_sample of a file whose probed duration is above 10.0 seconds
\* opens the too-long error dialog and leaves voice_sample_path as it was.
C11_TooLongRefused ==
    [][\A f \in TooLong :
          (UserCanAct /\ load_voice_sample(f, queue, timers)) =>
              /\ boxes' = Append(boxes, TooLongBox)
              /\ voice_sample_path' = voice_sample_path]_vars

\* A too-long file was refused while an earlier sample stays loaded
C11_Witness ==
    /\ boxes # <<>>
    /\ boxes[Len(boxes)] = TooLongBox
    /\ voice_sample_path = "tmp/voice_sample_0.wav"

\* C12: a generate_and_play whose text is empty or only whitespace starts no
\* thread and leaves is_generating and both buttons as they are; made while
\* is_generating is false it opens an error dialog, the empty-text one when the
\* model and a sample are there.  And no generate_and_play that opens an error
\* dialog starts a thread.
C12_EmptyTextStartsNothing ==
    /\ [][\A text \in Texts :
             (Strip(text) = <<>> /\ UserCanAct /\ play_enabled /\ generate_and_play(text)) =>
                 /\ UNCHANGED <<jobs, is_generating, play_enabled, record_enabled>>
                 /\ ~is_generating =>
                       /\ boxes' \in {Append(boxes, ModelMissingBox), Append(boxes, NoSampleBox),
                                      Append(boxes, EmptyTextBox)}
                       /\ (tts # None /\ voice_sample_path # None) =>
                             boxes' = Append(boxes, EmptyTextBox)]_vars
    /\ [][(GenerateAndPlay /\ boxes' # boxes) => UNCHANGED <<jobs, is_generating>>]_vars

\* The empty-text dialog is open over a session that could otherwise generate
C12_Witness ==
    /\ boxes # <<>>
    /\ boxes[Len(boxes)] = EmptyTextBox
    /\ tts # None
    /\ voice_sample_path # None
    /\ ~is_generating
    /\ jobs = <<>>
    /\ play_enabled
    /\ record_enabled

\* C13: a generate_and_play made while is_generating holds is reported as
\* rejected: whenever the Generate button can be clicked in such a state, the
\* click changes the state (it opens a dialog).
C13_BusyGenerateReported ==
    (UserCanAct /\ play_enabled /\ is_generating) => ENABLED <<GenerateAndPlay>>_vars

\* C14: generated_audio_path changes only in the step that delivers a generate
\* thread's generation_complete emission, and then to the emitted path.
C14_OnlySuccessStoresOutput ==
    [][generated_audio_path' # generated_audio_path =>
          /\ queue # <<>>
          /\ Head(queue).sig = "generation_complete"
          /\ generated_audio_path' = Head(queue).a]_vars

\* A synthesis has failed and been handled, in advanced mode with a sample
\* loaded, and no output path is stored
C14_Witness ==
    /\ \E j \in 1..Len(jobs) : jobs[j].kind = "gen" /\ jobs[j].fail = 1
    /\ advanced_mode
    /\ voice_sample_path # None
    /\ status = "Playing: sample"
    /\ generated_audio_path = None

\* C15: when a record thread's recording_complete is delivered, the closing of
\* the countdown dialog, the load of that recording (its path and label) and the
\* re-enabling of Record are scheduled and happen in this order; the load sets
\* voice_sample_path to the recording's path; and unless the process dies all of
\* them do happen.
C15_RecordingLoadsItsSample ==
    /\ [][(queue # <<>> /\ Head(queue).sig = "recording_complete" /\ queue' = Tail(queue)) =>
             /\ Head(queue).a = RecordedPath
             /\ Head(queue).b = RecordedLabel
             /\ jobs'[Head(queue).job].succ = 1
             /\ \E c, l, e \in DOMAIN timers' :
                   /\ c < l
                   /\ l < e
                   /\ timers'[c].k = "close_countdown"
                   /\ timers'[c].job = Head(queue).job
                   /\ timers'[l].k = "load_sample"
                   /\ timers'[l].job = Head(queue).job
                   /\ timers'[l].a = Head(queue).a
                   /\ timers'[l].b = Head(queue).b
                   /\ timers'[e].k = "button_enable"
                   /\ timers'[e].job = Head(queue).job
                   /\ timers'[e].a = "record"
                   /\ timers'[e].b = "on"]_vars
    /\ [](\A j \in 1..Len(jobs) :
             /\ CloseAt(j) # 0 => (LoadAt(j) > CloseAt(j) /\ countdown_window.seq # 0)
             /\ LoadAt(j) # 0 => EnableAt(j) > LoadAt(j))
    /\ [][(timers # <<>> /\ Head(timers).k = "load_sample" /\ Len(timers') < Len(timers)) =>
             /\ voice_sample_path' = Head(timers).a
             /\ file_info_frame'
             /\ CloseAt(Head(timers).job) = 0]_vars
    /\ \A j \in 1..MaxJobs :
          (j <= Len(jobs) /\ jobs[j].succ = 1) ~>
             (crashed \/ (CloseAt(j) = 0 /\ LoadAt(j) = 0 /\ EnableAt(j) = 0))

\* A recording has succeeded and its handling has run to the end
C15_Witness ==
    /\ \E j \in 1..Len(jobs) :
          /\ jobs[j].kind = "rec"
          /\ jobs[j].succ = 1
          /\ CloseAt(j) = 0
          /\ LoadAt(j) = 0
          /\ EnableAt(j) = 0
    /\ countdown_window = NoWindow
    /\ voice_sample_path = RecordedPath
    /\ record_enabled
    /\ status = StatusRecordingComplete

\* C16: a record thread whose captured buffer has a peak below the silence
\* threshold emits the four failure emissions with the silence text, writes no
\* file and emits no recording_complete; with a peak at or above the threshold it
\* writes the file and emits recording_complete.
C16_SilenceFails ==
    [][\A j \in 1..Len(jobs), peak \in Peaks :
          RecordCaptureWith(j, "ok", peak) =>
              IF peak < SilenceThreshold
              THEN /\ queue' = queue \o RecordFailure(j, StatusRecordingSilent)
                   /\ jobs'[j].res = "fail"
                   /\ ~jobs'[j].wrote
              ELSE /\ queue' = Append(queue, Msg("recording_complete", RecordedPath,
                                                 RecordedLabel, j))
                   /\ jobs'[j].res = "ok"
                   /\ jobs'[j].wrote]_vars

\* A silent recording has failed: its dialog is open, nothing was written and the
\* sample is not loaded
C16_Witness ==
    /\ \E j \in 1..Len(jobs) :
          /\ jobs[j].kind = "rec"
          /\ jobs[j].res = "fail"
          /\ jobs[j].fail = 1
          /\ ~jobs[j].wrote
    /\ boxes # <<>>
    /\ boxes[Len(boxes)].text = StatusRecordingSilent
    /\ status = StatusRecordingSilent
    /\ voice_sample_path # RecordedPath

\* C17: once a generate thread's inference call has returned or raised, its
\* outcome handler runs on the UI thread (unless the process dies) and leaves
\* is_generating false, both buttons enabled and the loading indicator stopped:
\* the handler stops the indicator when it starts and resets the flag and the
\* buttons when it ends.
C17_GenerateReturnsToIdle ==
    /\ \A j \in 1..MaxJobs :
          (j <= Len(jobs) /\ jobs[j].kind = "gen" /\ jobs[j].pc = "done") ~>
             (crashed \/ BackToIdle(j))
    /\ [][(queue # <<>> /\ Head(queue).sig \in {"generation_complete", "generation_error"}
             /\ queue' = Tail(queue)) =>
             (~loading_active' /\ loading_label' = "")]_vars
    /\ [][(boxes # <<>> /\ boxes[Len(boxes)].cont = "generation_error"
             /\ Len(boxes') < Len(boxes)) =>
             (~is_generating' /\ play_enabled' /\ record_enabled')]_vars

\* A generate thread has failed, its dialog has been dismissed and the session is
\* idle again
C17_Witness ==
    /\ \E j \in 1..Len(jobs) :
          /\ jobs[j].kind = "gen"
          /\ jobs[j].pc = "done"
          /\ jobs[j].fail = 1
          /\ BackToIdle(j)
    /\ boxes = <<>>
    /\ status = StatusGenerationError

C19_StaleTickIgnored ==
    [][\A k \in TickKinds, n \in 0..RecCountdownStart :
          (TickFires(k, n) /\ countdown_window.seq \notin {0, Head(timers).job}) =>
             (countdown_window' = countdown_window /\ Len(jobs') = Len(jobs))]_vars

\* C20: in the state a call of remove_file leaves (no voice sample, file-info
\* panel hidden, placeholder shown, status "File removed") a second call of
\* remove_file changes nothing; and the step that hides the file-info panel leaves
\* exactly that state.
C20_RemoveFileIdempotent ==
    /\ [](Removed => ~ENABLED <<remove_file /\ UNCHANGED <<cap, advanced_mode, advanced, calls, files>>>>_vars)
    /\ [][(file_info_frame /\ ~file_info_frame') => Removed']_vars

\* A loaded sample has been removed
C20_Witness ==
    /\ Removed
    /\ model_loaded
    /\ timers = <<>>
    /\ queue = <<>>

\* C21: in every call of generate_speech with use_emo_text set, the emotion
\* vector passed is None.
C21_VectorOrText ==
    \A c \in DOMAIN calls : calls[c].use_emo_text => calls[c].emo_vector = Absent

\* C22: generate_speech gets the optional parameters only in Advanced mode with
\* the sub-control engaged: in Easy mode the emotion vector, the emotion text, the
\* token budget and the length penalty are None (and use_emo_text is False); in
\* Advanced mode with "Use fixed length" unchecked the token budget and the length
\* penalty are None, and with "Use emotion text" unchecked the emotion text is.
C22_OptionalsNeedAdvanced ==
    \A c \in DOMAIN calls :
       /\ ~calls[c].adv =>
             /\ calls[c].emo_vector = Absent
             /\ calls[c].emo_text = Absent
             /\ ~calls[c].use_emo_text
             /\ calls[c].max_mel_tokens = Absent
             /\ calls[c].length_penalty = Absent
       /\ ~calls[c].fixed =>
             /\ calls[c].max_mel_tokens = Absent
             /\ calls[c].length_penalty = Absent
       /\ ~calls[c].checked =>
             /\ calls[c].emo_text = Absent
             /\ ~calls[c].use_emo_text

\* A call made in Easy mode while both check boxes are checked and every
\* advanced control holds a value of its own
C22_Witness ==
    \E c \in DOMAIN calls :
       /\ ~calls[c].adv
       /\ calls[c].checked
       /\ calls[c].fixed
       /\ emo_vec[8] # 0
       /\ emo_text # <<>>
       /\ max_mel_tokens # DefaultMaxMelTokens
       /\ length_penalty # 0

\* C23: a playback that fails to launch opens no error dialog.
C23_PlaybackFailureNoDialog ==
    \A i \in DOMAIN boxes : boxes[i].text # "Failed to play audio"

\* C24: no conversion of a sample writes to a path an earlier conversion of the
\* same run has written to.
C24_AppendOnly == rewritten = {}

\* C25: find_model_dir returns the cache directory when it exists and holds
\* config.yaml, else the fallback directory when it exists and holds config.yaml,
\* else None, and never a directory without config.yaml; when neither qualifies
\* load_model ends in FileNotFoundError whatever the constructor would do, no
\* model is stored, and the run ends with the not-found error; when one
\* qualifies load_model does not end in FileNotFoundError.
C25_ModelDiscovery ==
    \A fs \in model_dirs :
       LET cache == fs.hf /\ fs.hf_cfg
           fallback == fs.parent /\ fs.parent_cfg
       IN /\ cache => find_model_dir(fs) = "hf_cache"
          /\ (~cache /\ fallback) => find_model_dir(fs) = "parent_checkpoints"
          /\ (~cache /\ ~fallback) => find_model_dir(fs) = None
          /\ \A ctor \in {"ok", "raise"} :
                load_model(fs, ctor) = "notfound" <=> (~cache /\ ~fallback)
          /\ (model_dirs = {fs} /\ initjob.pc = "done") =>
                /\ initjob.res = "notfound" <=> (~cache /\ ~fallback)
                /\ initjob.res = "notfound" => tts = None

\* Both directories exist without config.yaml and the load has ended in the
\* not-found error
C25_Witness ==
    /\ model_dirs = {[hf |-> TRUE, hf_cfg |-> FALSE, parent |-> TRUE, parent_cfg |-> FALSE]}
    /\ initjob.pc = "done"
    /\ initjob.res = "notfound"
    /\ tts = None
    /\ status = StatusModelNotFound

\* C26: validate_audio_file returns, for an accepted file whose name does not end
\* in .wav (whatever the case), a file of another path whose name ends in .wav,
\* and an accepted file whose name ends in .wav as it is; and every sample path
\* load_voice_sample stores is the path of such a result.
C26_ValidatedIsWav ==
    /\ [](\A f \in SampleFiles :
            LET v == validate_audio_file(f)
            IN v.res = "ok" =>
                  /\ EndsWithWav(v.file)
                  /\ ~EndsWithWav(f) => (v.file.path # f.path /\ v.file.ext = "wav")
                  /\ EndsWithWav(f) => v.file = f)
    /\ [][(voice_sample_path' # voice_sample_path /\ voice_sample_path' # None) =>
             \E f \in SampleFiles :
                LET v == validate_audio_file(f)
                IN /\ v.res = "ok"
                   /\ EndsWithWav(v.file)
                   /\ voice_sample_path' = v.file.path]_vars

\* A sample that had to be converted is loaded
C26_Witness ==
    /\ voice_sample_path = convert_to_wav(CHOOSE f \in SampleFiles : f.path = "clip.mp3").path
    /\ file_info_frame
    /\ boxes = <<>>
    /\ status = "Voice sample loaded"

\* C27: after a failed model load, once every message and timer is processed,
\* the status line does not show the ready message.
C27_FailedLoadStatus ==
    (InitFailed /\ Quiescent) => status # StatusReady

\* C28: while a generate thread is in its synthesis (its outcome not yet
\* emitted), the Generate and Record buttons are both disabled.
C28_DisabledWhileGenerating ==
    \A j \in 1..Len(jobs) :
       (jobs[j].kind = "gen" /\ jobs[j].pc = "infer") => (~play_enabled /\ ~record_enabled)

\* C29: while the pre-roll of an accepted record request runs, the Record button
\* is disabled.
C29_RecordDisabledInPreRoll ==
    CountKind(timers, "pre_countdown") > 0 => ~record_enabled

\* C30: once a record thread has emitted its outcome, success or failure, the
\* handling of the outcome runs to its end (unless the process dies), and then
\* the countdown dialog of that recording is closed and the Record button is
\* enabled; a failed recording schedules no sample load, and no step of a record
\* thread changes voice_sample_path.
C30_RecordingOutcomeSettles ==
    /\ \A j \in 1..MaxJobs :
          (j <= Len(jobs) /\ jobs[j].kind = "rec" /\ jobs[j].pc = "done") ~>
             (crashed \/ (/\ Applied(j)
                          /\ countdown_window.seq # jobs[j].seq
                          /\ record_enabled))
    /\ [](\A j \in 1..Len(jobs) : jobs[j].res = "fail" => LoadAt(j) = 0)
    /\ [][(queue # <<>> /\ Head(queue).job \in 1..Len(jobs) /\ queue' = Tail(queue)
             /\ jobs[Head(queue).job].kind = "rec" /\ jobs[Head(queue).job].res = "fail") =>
             voice_sample_path' = voice_sample_path]_vars
    /\ [][Worker => voice_sample_path' = voice_sample_path]_vars

\* A recording has failed after a sample was loaded: the dialog is closed, the
\* error was shown, Record is enabled and the sample is still the loaded one
C30_Witness ==
    /\ Len(jobs) = 1
    /\ jobs[1].kind = "rec"
    /\ jobs[1].res = "fail"
    /\ Applied(1)
    /\ boxes = <<>>
    /\ countdown_window = NoWindow
    /\ record_enabled
    /\ voice_sample_path = "clip.wav"

\* The record threads started for countdown sequence s
RecordThreads(s) == {j \in 1..Len(jobs) : jobs[j].kind = "rec" /\ jobs[j].seq = s}

\* C31: a record thread is started only by the pre-roll callback with value 0 and
\* belongs to that callback's sequence, the callback with value 0 starts exactly
\* one, no sequence ever has two threads or a thread while one of its pre-roll
\* callbacks is pending, and every accepted request gets its thread (unless the
\* process dies); the outcome a record thread has emitted can always be
\* delivered, whether or not recording-countdown callbacks are still pending.
C31_OneThreadPerRequest ==
    /\ [][(Len(jobs') > Len(jobs) /\ jobs'[Len(jobs')].kind = "rec") =>
             /\ TickFires("pre_countdown", 0)
             /\ jobs' = Append(jobs, NewJob("rec", Head(timers).job))]_vars
    /\ [][TickFires("pre_countdown", 0) =>
             jobs' = Append(jobs, NewJob("rec", Head(timers).job))]_vars
    /\ [](\A s \in 1..nseq :
             /\ Cardinality(RecordThreads(s)) <= 1
             /\ RecordThreads(s) # {} => ~PendingTick("pre_countdown", s))
    /\ \A s \in 1..MaxJobs :
          (nseq >= s) ~> (crashed \/ Cardinality(RecordThreads(s)) = 1)
    /\ [](\A j \in 1..Len(jobs) :
             (~crashed /\ jobs[j].kind = "rec" /\ \E i \in DOMAIN queue : queue[i].job = j) =>
                ENABLED <<DeliverSignal>>_vars)

\* The failure of a record thread has been delivered and handled while the
\* recording countdown of its sequence still has a callback pending
C31_Witness ==
    /\ Len(jobs) = 1
    /\ jobs[1].kind = "rec"
    /\ jobs[1].res = "fail"
    /\ jobs[1].fail = 1
    /\ \A i \in DOMAIN queue : queue[i].job # 1
    /\ PendingTick("recording_countdown", jobs[1].seq)

\* C32: a step that changes advanced_mode changes nothing else (the model object,
\* the two paths, is_generating, the buttons, the threads, the timers and
\* everything else keep their values), and whenever the main window takes input
\* a toggle flips the mode, in either direction, so that two toggles in a row
\* give the mode back.
C32_ToggleOnlyMode ==
    /\ [][advanced_mode' # advanced_mode =>
             /\ advanced_mode' = ~advanced_mode
             /\ UNCHANGED <<session, countdown_window, loading, widgets, buttons, status,
                            panel, queue, timers, boxes, initjob, jobs, dialogs,
                            workerWrites, cap, advanced, calls, files>>]_vars
    /\ [](advanced_mode \in BOOLEAN)
    /\ [](UserCanAct => ENABLED <<ToggleMode>>_vars)

\* The mode has been switched to advanced, and can be switched back, while a
\* generate thread runs and the loading timer is pending
C32_Witness ==
    /\ advanced_mode
    /\ UserCanAct
    /\ is_generating
    /\ loading_active
    /\ \E i \in DOMAIN timers : timers[i].k = "update_loading"
    /\ \E j \in 1..Len(jobs) : jobs[j].kind = "gen" /\ jobs[j].pc # "done"

\* C33: when the window is built and voice_sample_path is absent, a call of
\* remove_file changes nothing: no variable, the status line and the two panels
\* included, has another value after the call.
C33_RemoveAbsentNoOp ==
    (widgets /\ voice_sample_path = None) =>
       ~ENABLED <<remove_file /\ UNCHANGED <<cap, advanced_mode, advanced, calls, files>>>>_vars

\* C34: once the window is built, the file-info panel is visible exactly when
\* voice_sample_path is set and the placeholder is visible exactly when it is
\* absent, whatever loads (accepted or refused) and removals have run.
C34_PanelFollowsSample ==
    widgets => /\ file_info_frame <=> voice_sample_path # None
               /\ drop_label <=> voice_sample_path = None

\* A load was refused after another one was accepted: the error dialog is open,
\* the earlier sample is still set and its panel is still shown
C34_Witness ==
    /\ voice_sample_path = "clip.wav"
    /\ file_info_frame
    /\ ~drop_label
    /\ \E i \in DOMAIN boxes : boxes[i].cont = "load_error"

\* C35: validate_audio_file accepts a file of exactly 10.0 seconds and refuses
\* every longer one with ValueError; a load of a longer file writes no converted
\* file and leaves voice_sample_path as it was; and voice_sample_path gets a new
\* value only in a step that ends with the loaded status, from a file that
\* validate_audio_file accepted, that is not above 10.0 seconds and whose duration
\* can be probed.
C35_DurationBeforeConversion ==
    /\ [](\A f \in SampleFiles :
            LET v == validate_audio_file(f)
            IN /\ (f.readable /\ f.dur = MaxDuration /\ (EndsWithWav(f) \/ f.convertible)) =>
                     v.res = "ok"
               /\ (f.readable /\ f.dur > MaxDuration) => (v.res = "ValueError" /\ v.file = f))
    /\ [][\A f \in TooLong :
             (UserCanAct /\ load_voice_sample(f, queue, timers)) =>
                 /\ written' = written
                 /\ rewritten' = rewritten
                 /\ voice_sample_path' = voice_sample_path]_vars
    /\ [][(voice_sample_path' # voice_sample_path /\ voice_sample_path' # None) =>
             /\ status' = "Voice sample loaded"
             /\ boxes' = boxes
             /\ \E f \in SampleFiles :
                   LET v == validate_audio_file(f)
                   IN /\ v.res = "ok"
                      /\ v.file.readable
                      /\ v.file.dur <= MaxDuration
                      /\ voice_sample_path' = v.file.path]_vars

\* The file of exactly 10.0 seconds was converted and loaded in second 1, and a
\* longer file was refused after it: only the one converted file was written
C35_Witness ==
    /\ now = 1
    /\ voice_sample_path = "tmp/voice_sample_1.wav"
    /\ written = {"tmp/voice_sample_1.wav"}
    /\ rewritten = {}
    /\ boxes # <<>>
    /\ boxes[Len(boxes)] = TooLongBox

\* The pending callbacks of the loading indicator
LoadingTicks == CountKind(timers, "update_loading")

\* C36: while the loading indicator is active and at most one generate thread is
\* unfinished or unhandled, at most one update_loading callback is pending, so
\* that the frame counter is advanced by one chain only, also when a generation
\* starts before the callback of a stopped chain has fired.
C36_OneLoadingChain ==
    (loading_active /\ Cardinality(JobsInFlight) <= 1) => LoadingTicks <= 1

\* C37: every call of generate_speech a generate thread makes hands over a voice
\* sample: the request was accepted with voice_sample_path set, and no removal
\* or load on the UI thread between the acceptance and the call makes the
\* thread pass an absent sample.
C37_SampleAsAccepted ==
    \A c \in DOMAIN calls : calls[c].sample # None

\* C38: the call of generate_speech is never refused for its arguments: no
\* generate thread reports the TypeError of an unexpected keyword argument, so
\* that a thread whose inference returns reports generation-complete.
C38_CallAccepted ==
    \A i \in DOMAIN queue :
       ~(queue[i].sig = "generation_error" /\ queue[i].a = "TypeError")

\* C39: while a pre-roll callback is pending the countdown dialog of its
\* sequence is open, so the callback finds the dialog it writes to: no closing
\* of a dialog by a recording outcome comes between a show_countdown and its
\* pre-roll callbacks, and no pre-roll callback brings the process down.
C39_TickFindsDialog ==
    /\ [](\A i \in DOMAIN timers :
             timers[i].k = "pre_countdown" => countdown_window.seq = timers[i].job)
    /\ [][(timers # <<>> /\ Head(timers).k = "pre_countdown" /\ timers' # timers) =>
             ~crashed']_vars

\* The pre-roll of a second recording runs after the first recording failed and
\* its dialog was closed by the outcome
C39_Witness ==
    /\ nseq = 2
    /\ countdown_window.seq = 2
    /\ PendingTick("pre_countdown", 2)
    /\ Len(jobs) >= 1
    /\ jobs[1].kind = "rec"
    /\ jobs[1].res = "fail"

====
